---- MODULE Spec2Model ----
(***************************************************************************)
(* A model of the car service: the cars table of                           *)
(* migrations/000001_init_schema.up.sql, the data-access component         *)
(* (internal/repository/car_repository.go), the orchestration component   *)
(* (internal/service/car_service.go) and the request dispatch              *)
(* (api/car_handler.go, stored as unnamed/part_001).                       *)
(*                                                                         *)
(* Every SQL statement is one atomic step.  A handler that issues several  *)
(* statements is a chain of actions, one per statement, each including the *)
(* local computation that precedes the statement; requests of different    *)
(* clients interleave between statements.                                  *)
(***************************************************************************)
EXTENDS Integers, Sequences, FiniteSets, TLC

VARIABLES
    cars,         \* the rows of table cars (a set of records, soft-deleted rows included)
    cars_id_seq,  \* last value handed out by the BIGSERIAL sequence of cars.id
    clock,        \* current time in ticks, read by time.Now() and NOW()
    dbUp,         \* FALSE while the storage engine fails every statement
    pc,           \* per client: the statement its in-flight request executes next
    req,          \* per client: the in-flight request
    newId,        \* per client: the id returned by the INSERT of an in-flight create
    resp,         \* the HTTP response written by the last step (NoResp if none)
    issuedIds,    \* history: the ids carried by 201 responses, in order
    script,       \* per client: the responses its scripted scenario has received
    server        \* the process: its phase, the seconds of grace used, db.Close() called

vars == <<cars, cars_id_seq, clock, dbUp, pc, req, newId, resp, issuedIds, script, server>>

(***************************************************************************)
(* Bounds of the model.                                                    *)
(***************************************************************************)
MaxIds == 2          \* creates stop once the id sequence has reached MaxIds
MaxClock == 2        \* the clock stops ticking at MaxClock
TicksPerSecond == 2  \* clock ticks per second of the RFC3339 rendering

Clients == {"c1", "c2"}

\* context.WithTimeout(context.Background(), 5*time.Second): the seconds srv.Shutdown
\* waits for the requests in flight
GracePeriod == 5

(***************************************************************************)
(* Values of the wire and of the table.                                    *)
(***************************************************************************)
NullTime == 0 - 1            \* deleted_at IS NULL
NoDescription == "<null>"    \* description IS NULL / *string nil / NullString{Valid:false}
Absent == "<absent>"         \* a query parameter the request does not carry

\* validateCarRequest's and the CHECK constraint's upper limit, in currency units.
MaxManufacturingValue == 15000000

\* A manufacturing value of a request is a decimal number with three places:
\* cents/100 + mills/1000, with 0 <= mills <= 9.
Amount(c, m) == [cents |-> c, mills |-> m]
Positive(v) == v.cents > 0 \/ (v.cents = 0 /\ v.mills > 0)
BelowLimit(v) == v.cents < MaxManufacturingValue * 100

\* ToNumeric15_2 truncating instead of rounding
ToNumeric15_2_Truncating(v) == v.cents

\* The column manufacturing_value is DECIMAL(15, 2): storing a value rounds it
\* to two decimal places (half away from zero); the stored value is in cents.
ToNumeric15_2(v) == IF v.mills >= 5 THEN v.cents + 1 ELSE v.cents

\* the column without its CHECK constraint
CheckManufacturingValue_NoCheck(cents) == TRUE

\* CHECK (manufacturing_value > 0 AND manufacturing_value < 15000000)
CheckManufacturingValue(cents) == cents > 0 /\ cents < MaxManufacturingValue * 100

(***************************************************************************)
(* Errors.  An error value is the text it carries (its cause) and the set  *)
(* of sentinel errors errors.Is finds in its chain.                        *)
(***************************************************************************)
NoError == [cause |-> "", is |-> {}]
\* database/sql's ErrNoRows, as returned by Row.Scan
ErrNoRows == [cause |-> "no rows", is |-> {"sql.ErrNoRows"}]
\* any other failure of the driver or of the storage engine
ErrDriver(cause) == [cause |-> cause, is |-> {}]
\* errors.New(text)
ErrorsNew(cause) == [cause |-> cause, is |-> {}]
\* fmt.Errorf("...: %v", err): the text of err is kept, err itself is not wrapped
ErrorfV(err) == [cause |-> err.cause, is |-> {}]
\* errors.Is(err, target)
ErrorsIs(err, target) == target \in err.is

(***************************************************************************)
(* model.Car, model.CarRequest, model.CarResponse                          *)
(***************************************************************************)
ZeroCar ==
    [ID |-> 0, Name |-> "", Brand |-> "", ManufacturingValue |-> 0,
     Description |-> NoDescription, CreatedAt |-> 0, UpdatedAt |-> 0]

\* time.Time.Format(time.RFC3339): the rendering keeps whole seconds only
FormatRFC3339(t) == t \div TicksPerSecond

\* ToResponse with the two timestamps in each other's place
ToResponse_SwappedTimes(car) ==
    [id |-> car.ID, name |-> car.Name, brand |-> car.Brand,
     manufacturing_value |-> car.ManufacturingValue,
     description |-> car.Description,
     created_at |-> FormatRFC3339(car.UpdatedAt),
     updated_at |-> FormatRFC3339(car.CreatedAt)]

\* Car.ToResponse
ToResponse(car) ==
    [id |-> car.ID, name |-> car.Name, brand |-> car.Brand,
     manufacturing_value |-> car.ManufacturingValue,
     description |-> car.Description,
     created_at |-> FormatRFC3339(car.CreatedAt),
     updated_at |-> FormatRFC3339(car.UpdatedAt)]

RECURSIVE toCarResponses(_)
toCarResponses(list) ==
    IF list = <<>> THEN <<>>
    ELSE <<ToResponse(Head(list))>> \o toCarResponses(Tail(list))

\* CarRequest.ToModel: the car to insert; its value is still the request's
ToModel(cr) ==
    [Name |-> cr.name, Brand |-> cr.brand,
     ManufacturingValue |-> cr.manufacturing_value,
     Description |-> cr.description]

\* UpdateFromRequest on a fresh Car instead of the fetched one: the id is lost
UpdateFromRequest_LosesId(id, cr) ==
    [ID |-> 0, Name |-> cr.name, Brand |-> cr.brand,
     ManufacturingValue |-> cr.manufacturing_value,
     Description |-> cr.description]

\* Car.UpdateFromRequest: all four business fields are replaced
UpdateFromRequest(id, cr) ==
    [ID |-> id, Name |-> cr.name, Brand |-> cr.brand,
     ManufacturingValue |-> cr.manufacturing_value,
     Description |-> cr.description]

(***************************************************************************)
(* The table and its statements (car_repository.go).  now is the time the  *)
(* statement reads.                                                        *)
(***************************************************************************)
IsLive(r) == r.deleted_at = NullTime
LiveCars == {r \in cars : IsLive(r)}

\* rows.Scan / Row.Scan of the seven selected columns
ScanCar(r) ==
    [ID |-> r.id, Name |-> r.name, Brand |-> r.brand,
     ManufacturingValue |-> r.manufacturing_value,
     Description |-> r.description,
     CreatedAt |-> r.created_at, UpdatedAt |-> r.updated_at]

\* the sequences that list the elements of a finite set once each, in any order
Orderings(S) ==
    {f \in [1..Cardinality(S) -> S] : \A i, j \in 1..Cardinality(S) : f[i] = f[j] => i = j}

RECURSIVE ScanAll(_)
ScanAll(rows) ==
    IF rows = <<>> THEN <<>> ELSE <<ScanCar(Head(rows))>> \o ScanAll(Tail(rows))

\* ORDER BY id: the rows of S by ascending id
RECURSIVE OrderById(_)
OrderById(S) ==
    IF S = {} THEN <<>>
    ELSE LET first == CHOOSE r \in S : \A o \in S : r.id <= o.id
         IN  <<first>> \o OrderById(S \ {first})

(***************************************************************************)
(* Machine integers.  Go's int is 64 bits wide on the platforms the        *)
(* service is built for; a value is its four 16-bit limbs, least           *)
(* significant first, in two's complement.                                 *)
(***************************************************************************)
LimbBase == 2^16
Int64OfSmall(n) == <<n, 0, 0, 0>>                             \* 0 <= n < 2^16
Int64OfSmallNeg(n) == <<LimbBase - n, LimbBase - 1, LimbBase - 1, LimbBase - 1>>  \* -n, 0 < n < 2^16
MaxInt64 == <<LimbBase - 1, LimbBase - 1, LimbBase - 1, (LimbBase \div 2) - 1>>
IsNegative64(x) == x[4] >= LimbBase \div 2
FitsOneLimb(x) == x[2] = 0 /\ x[3] = 0 /\ x[4] = 0
\* x < k and x > k for 0 <= k < 2^16
LessThanSmall(x, k) == IsNegative64(x) \/ (FitsOneLimb(x) /\ x[1] < k)
GreaterThanSmall(x, k) == ~IsNegative64(x) /\ (~FitsOneLimb(x) \/ x[1] > k)

\* x - 1, wrapping
RECURSIVE SubBorrow(_, _)
SubBorrow(x, borrow) ==
    IF x = <<>> THEN <<>>
    ELSE LET d == Head(x) - borrow
         IN  IF d < 0 THEN <<d + LimbBase>> \o SubBorrow(Tail(x), 1)
             ELSE <<d>> \o SubBorrow(Tail(x), 0)
SubOne64(x) == SubBorrow(x, 1)

\* x * k for 0 <= k < 2^15, wrapping: the carry out of the top limb is lost
RECURSIVE MulCarry(_, _, _)
MulCarry(x, k, carry) ==
    IF x = <<>> THEN <<>>
    ELSE LET t == Head(x) * k + carry
         IN  <<t % LimbBase>> \o MulCarry(Tail(x), k, t \div LimbBase)
MulSmall64(x, k) == MulCarry(x, k, 0)

(***************************************************************************)
(* Parsing of path and query parameters.  A parameter is the text the      *)
(* request carries; each parser is its table over the texts of the model.  *)
(***************************************************************************)
Parsed(v) == [ok |-> TRUE, v |-> v]
Failed(v) == [ok |-> FALSE, v |-> v]

\* strconv.ParseInt(s, 10, 64) for the id of a path
IdTexts == {"abc", "-1", "0", "1", "2", "3"}
ParseInt(s) ==
    CASE s = "-1" -> Parsed(0 - 1)
      [] s = "0" -> Parsed(0)
      [] s = "1" -> Parsed(1)
      [] s = "2" -> Parsed(2)
      [] s = "3" -> Parsed(3)
      [] OTHER -> Failed(0)

\* strconv.Atoi(s): a syntax error returns 0, a value out of range returns the
\* nearest int, both with an error
Atoi(s) ==
    CASE s = "-1" -> Parsed(Int64OfSmallNeg(1))
      [] s = "0" -> Parsed(Int64OfSmall(0))
      [] s = "1" -> Parsed(Int64OfSmall(1))
      [] s = "2" -> Parsed(Int64OfSmall(2))
      [] s = "3" -> Parsed(Int64OfSmall(3))
      [] s = "10" -> Parsed(Int64OfSmall(10))
      [] s = "64" -> Parsed(Int64OfSmall(64))
      [] s = "100" -> Parsed(Int64OfSmall(100))
      [] s = "101" -> Parsed(Int64OfSmall(101))
      [] s = "288230376151711745" -> Parsed(<<1, 0, 0, 1024>>)      \* 2^58 + 1
      [] s = "9223372036854775807" -> Parsed(MaxInt64)              \* 2^63 - 1
      [] s = "9223372036854775808" -> Failed(MaxInt64)              \* out of range
      [] OTHER -> Failed(Int64OfSmall(0))

\* gin's Context.DefaultQuery
DefaultQuery(s, def) == IF s = Absent THEN def ELSE s

\* A float64 of a price bound: NaN, or a decimal number in cents.
Float(c) == [nan |-> FALSE, cents |-> c]
NaN == [nan |-> TRUE, cents |-> 0]
\* Go's comparisons of float64: every comparison with NaN is false
FloatLess(a, b) == ~a.nan /\ ~b.nan /\ a.cents < b.cents
FloatGreater(a, b) == FloatLess(b, a)

\* strconv.ParseFloat(s, 64); gin's Context.Query gives "" for an absent parameter
ParseFloat(s) ==
    CASE s = "NaN" -> Parsed(NaN)
      [] s = "-1" -> Parsed(Float(0 - 100))
      [] s = "0" -> Parsed(Float(0))
      [] s = "1" -> Parsed(Float(100))
      [] s = "1.01" -> Parsed(Float(101))
      [] OTHER -> Failed(Float(0))

(***************************************************************************)
(* carRepository.  A statement issued while the storage engine is down     *)
(* fails with a driver error.  Each operator gives the outcome of the      *)
(* call on the current table: the error, the value returned and, for a     *)
(* writing statement, the table afterwards.                                *)
(***************************************************************************)
\* time.Now() of the service process and NOW() of the storage engine
TimeNow == clock
PgNow == clock

\* Row.Scan on the result of QueryRowContext: ErrNoRows when no row matched
Scan(rows) == IF rows = {} THEN ErrNoRows ELSE NoError

\* carRepository.GetByID: WHERE id = $1 AND deleted_at IS NULL; a missing row is
\* reported with a new error that does not wrap ErrNoRows
RepoGetByID(id) ==
    LET rows == {r \in cars : r.id = id /\ r.deleted_at = NullTime}
    IN  IF ~dbUp THEN [err |-> ErrorfV(ErrDriver("storage failure")), car |-> ZeroCar]
        ELSE IF ErrorsIs(Scan(rows), "sql.ErrNoRows")
             THEN [err |-> ErrorsNew("not found"), car |-> ZeroCar]
        ELSE [err |-> NoError, car |-> ScanCar(CHOOSE r \in rows : TRUE)]

\* RepoGetByName without the deleted_at IS NULL condition
RepoGetByName_IncludingDeleted(name) ==
    LET rows == {r \in cars : r.name = name}
    IN  IF ~dbUp THEN {[err |-> ErrorfV(ErrDriver("storage failure")), car |-> ZeroCar]}
        ELSE IF ErrorsIs(Scan(rows), "sql.ErrNoRows")
             THEN {[err |-> ErrorsNew("not found"), car |-> ZeroCar]}
        ELSE {[err |-> NoError, car |-> ScanCar(r)] : r \in rows}

\* carRepository.GetByName: WHERE name = $1 AND deleted_at IS NULL.  QueryRow scans
\* the first row of an unordered result: any matching row may be the one returned.
RepoGetByName(name) ==
    LET rows == {r \in cars : r.name = name /\ r.deleted_at = NullTime}
    IN  IF ~dbUp THEN {[err |-> ErrorfV(ErrDriver("storage failure")), car |-> ZeroCar]}
        ELSE IF ErrorsIs(Scan(rows), "sql.ErrNoRows")
             THEN {[err |-> ErrorsNew("not found"), car |-> ZeroCar]}
        ELSE {[err |-> NoError, car |-> ScanCar(r)] : r \in rows}

\* RepoGetByBrand without the deleted_at IS NULL condition
RepoGetByBrand_IncludingDeleted(brand) ==
    LET rows == {r \in cars : r.brand = brand}
    IN  IF ~dbUp THEN {[err |-> ErrorfV(ErrDriver("storage failure")), cars |-> <<>>]}
        ELSE {[err |-> NoError, cars |-> ScanAll(o)] : o \in Orderings(rows)}

\* carRepository.GetByBrand: WHERE brand = $1 AND deleted_at IS NULL, in no stated order
RepoGetByBrand(brand) ==
    LET rows == {r \in cars : r.brand = brand /\ r.deleted_at = NullTime}
    IN  IF ~dbUp THEN {[err |-> ErrorfV(ErrDriver("storage failure")), cars |-> <<>>]}
        ELSE {[err |-> NoError, cars |-> ScanAll(o)] : o \in Orderings(rows)}

\* The storage engine's order of numeric values: NaN equals NaN and is greater
\* than every number.
NumericLessEq(a, b) == IF a.nan THEN b.nan ELSE (b.nan \/ a.cents <= b.cents)

\* RepoGetByPriceRange with an exclusive upper bound
RepoGetByPriceRange_ExclusiveUpper(minPrice, maxPrice) ==
    LET rows == {r \in cars : /\ NumericLessEq(minPrice, Float(r.manufacturing_value))
                              /\ ~NumericLessEq(maxPrice, Float(r.manufacturing_value))
                              /\ r.deleted_at = NullTime}
    IN  IF ~dbUp THEN {[err |-> ErrorfV(ErrDriver("storage failure")), cars |-> <<>>]}
        ELSE {[err |-> NoError, cars |-> ScanAll(o)] : o \in Orderings(rows)}

\* carRepository.GetByPriceRange:
\* WHERE manufacturing_value BETWEEN $1 AND $2 AND deleted_at IS NULL, in no stated order
RepoGetByPriceRange(minPrice, maxPrice) ==
    LET rows == {r \in cars : /\ NumericLessEq(minPrice, Float(r.manufacturing_value))
                              /\ NumericLessEq(Float(r.manufacturing_value), maxPrice)
                              /\ r.deleted_at = NullTime}
    IN  IF ~dbUp THEN {[err |-> ErrorfV(ErrDriver("storage failure")), cars |-> <<>>]}
        ELSE {[err |-> NoError, cars |-> ScanAll(o)] : o \in Orderings(rows)}

\* LIMIT limit OFFSET offset over an ordered result; offset is a machine integer
LimitOffset(ordered, limit, offset) ==
    IF ~FitsOneLimb(offset) \/ offset[1] >= Len(ordered) THEN <<>>
    ELSE SubSeq(ordered, offset[1] + 1,
                IF offset[1] + limit > Len(ordered) THEN Len(ordered) ELSE offset[1] + limit)

\* carRepository.GetAll: WHERE deleted_at IS NULL ORDER BY id LIMIT $1 OFFSET $2 with
\* offset := (page - 1) * pageSize computed in int.  The storage engine rejects a
\* negative LIMIT or OFFSET.  (pageSize below 2^15 in absolute value.)
RepoGetAll(page, pageSize) ==
    LET offset == IF IsNegative64(pageSize)
                     THEN Int64OfSmall(0)
                     ELSE MulSmall64(SubOne64(page), pageSize[1])
    IN  IF ~dbUp THEN [err |-> ErrorfV(ErrDriver("storage failure")), cars |-> <<>>, offset |-> offset]
        ELSE IF IsNegative64(pageSize) \/ IsNegative64(offset)
             THEN [err |-> ErrorfV(ErrDriver("negative LIMIT or OFFSET")),
                   cars |-> <<>>, offset |-> offset]
        ELSE [err |-> NoError,
              cars |-> ScanAll(LimitOffset(OrderById(LiveCars), pageSize[1], offset)),
              offset |-> offset]

\* RepoCreate against a table with a unique index on the names of live rows
RepoCreate_UniqueLiveName(car) ==
    LET now == TimeNow
        id == cars_id_seq + 1
        row == [id |-> id, name |-> car.Name, brand |-> car.Brand,
                manufacturing_value |-> ToNumeric15_2(car.ManufacturingValue),
                description |-> car.Description,
                created_at |-> now, updated_at |-> now, deleted_at |-> NullTime]
    IN  IF ~dbUp
        THEN [err |-> ErrorfV(ErrDriver("storage failure")), id |-> 0,
              cars |-> cars, seq |-> cars_id_seq]
        ELSE IF ~CheckManufacturingValue(row.manufacturing_value)
        THEN [err |-> ErrorfV(ErrDriver("check constraint")), id |-> 0,
              cars |-> cars, seq |-> id]
        ELSE IF \E r \in cars : r.name = row.name /\ r.deleted_at = NullTime
        THEN [err |-> ErrorfV(ErrDriver("unique constraint")), id |-> 0,
              cars |-> cars, seq |-> id]
        ELSE [err |-> NoError, id |-> id, cars |-> cars \cup {row}, seq |-> id]

\* carRepository.Create: INSERT ... RETURNING id with created_at = updated_at = now.
\* The sequence advances even when the CHECK constraint rejects the row.
RepoCreate(car) ==
    LET now == TimeNow
        id == cars_id_seq + 1
        row == [id |-> id, name |-> car.Name, brand |-> car.Brand,
                manufacturing_value |-> ToNumeric15_2(car.ManufacturingValue),
                description |-> car.Description,
                created_at |-> now, updated_at |-> now, deleted_at |-> NullTime]
    IN  IF ~dbUp
        THEN [err |-> ErrorfV(ErrDriver("storage failure")), id |-> 0,
              cars |-> cars, seq |-> cars_id_seq]
        ELSE IF ~CheckManufacturingValue(row.manufacturing_value)
        THEN [err |-> ErrorfV(ErrDriver("check constraint")), id |-> 0,
              cars |-> cars, seq |-> id]
        ELSE [err |-> NoError, id |-> id, cars |-> cars \cup {row}, seq |-> id]

\* RepoUpdate without the id = $6 condition: every live row is rewritten
RepoUpdate_WithoutIdCondition(car) ==
    LET rows == {r \in cars : r.deleted_at = NullTime}
        new(r) == [r EXCEPT !.name = car.Name, !.brand = car.Brand,
                            !.manufacturing_value = ToNumeric15_2(car.ManufacturingValue),
                            !.description = car.Description,
                            !.updated_at = PgNow]
    IN  IF ~dbUp THEN [err |-> ErrorfV(ErrDriver("storage failure")), cars |-> cars]
        ELSE IF rows = {} THEN [err |-> ErrorsNew("not found"), cars |-> cars]
        ELSE IF ~CheckManufacturingValue(ToNumeric15_2(car.ManufacturingValue))
        THEN [err |-> ErrorfV(ErrDriver("check constraint")), cars |-> cars]
        ELSE [err |-> NoError, cars |-> (cars \ rows) \cup {new(r) : r \in rows}]

\* RepoUpdate without the deleted_at IS NULL condition
RepoUpdate_IncludingDeleted(car) ==
    LET rows == {r \in cars : r.id = car.ID}
        new(r) == [r EXCEPT !.name = car.Name, !.brand = car.Brand,
                            !.manufacturing_value = ToNumeric15_2(car.ManufacturingValue),
                            !.description = car.Description,
                            !.updated_at = PgNow]
    IN  IF ~dbUp THEN [err |-> ErrorfV(ErrDriver("storage failure")), cars |-> cars]
        ELSE IF rows = {} THEN [err |-> ErrorsNew("not found"), cars |-> cars]
        ELSE IF ~CheckManufacturingValue(ToNumeric15_2(car.ManufacturingValue))
        THEN [err |-> ErrorfV(ErrDriver("check constraint")), cars |-> cars]
        ELSE [err |-> NoError, cars |-> (cars \ rows) \cup {new(r) : r \in rows}]

\* carRepository.Update: UPDATE ... WHERE id = $6 AND deleted_at IS NULL.  The trigger
\* update_cars_updated_at sets updated_at to NOW() on every updated row.
RepoUpdate(car) ==
    LET rows == {r \in cars : r.id = car.ID /\ r.deleted_at = NullTime}
        new(r) == [r EXCEPT !.name = car.Name, !.brand = car.Brand,
                            !.manufacturing_value = ToNumeric15_2(car.ManufacturingValue),
                            !.description = car.Description,
                            !.updated_at = PgNow]
    IN  IF ~dbUp THEN [err |-> ErrorfV(ErrDriver("storage failure")), cars |-> cars]
        ELSE IF rows = {} THEN [err |-> ErrorsNew("not found"), cars |-> cars]
        ELSE IF ~CheckManufacturingValue(ToNumeric15_2(car.ManufacturingValue))
        THEN [err |-> ErrorfV(ErrDriver("check constraint")), cars |-> cars]
        ELSE [err |-> NoError, cars |-> (cars \ rows) \cup {new(r) : r \in rows}]

\* the same statement without its condition deleted_at IS NULL
RepoDelete_IncludingDeleted(id) ==
    LET rows == {r \in cars : r.id = id}
        new(r) == [r EXCEPT !.deleted_at = TimeNow, !.updated_at = PgNow]
    IN  IF ~dbUp THEN [err |-> ErrorfV(ErrDriver("storage failure")), cars |-> cars]
        ELSE IF rows = {} THEN [err |-> ErrorsNew("not found"), cars |-> cars]
        ELSE [err |-> NoError, cars |-> (cars \ rows) \cup {new(r) : r \in rows}]

\* carRepository.Delete: UPDATE cars SET deleted_at = $1 WHERE id = $2 AND deleted_at IS NULL;
\* the trigger applies to this UPDATE too.
RepoDelete(id) ==
    LET rows == {r \in cars : r.id = id /\ r.deleted_at = NullTime}
        new(r) == [r EXCEPT !.deleted_at = TimeNow, !.updated_at = PgNow]
    IN  IF ~dbUp THEN [err |-> ErrorfV(ErrDriver("storage failure")), cars |-> cars]
        ELSE IF rows = {} THEN [err |-> ErrorsNew("not found"), cars |-> cars]
        ELSE [err |-> NoError, cars |-> (cars \ rows) \cup {new(r) : r \in rows}]

(***************************************************************************)
(* Requests and responses.                                                 *)
(***************************************************************************)
CarRequest(n, b, v, d) ==
    [name |-> n, brand |-> b, manufacturing_value |-> v, description |-> d]
NoCarRequest == CarRequest("", "", Amount(0, 0), NoDescription)

\* The JSON bodies a client sends with POST /cars and PUT /cars/{id}.
CarRequests ==
    {CarRequest("a", "x", Amount(100, 0), "d"),                       \* 1.00
     CarRequest("b", "y", Amount(100, 5), NoDescription),             \* 1.005
     CarRequest("a", "y", Amount(0, 4), "d"),                         \* 0.004
     CarRequest("b", "x", Amount(MaxManufacturingValue * 100 - 1, 5), NoDescription),
                                                                      \* 14999999.995
     CarRequest("a", "x", Amount(0, 0), "d"),                         \* 0
     CarRequest("a", "x", Amount(0 - 100, 0), "d"),                   \* -1.00
     CarRequest("a", "x", Amount(MaxManufacturingValue * 100, 0), "d"),  \* 15000000
     CarRequest("", "x", Amount(100, 0), "d"),
     CarRequest("a", "", Amount(100, 0), "d")}
NameTexts == {"", "a", "b"}
BrandTexts == {"", "x", "y"}

Request(op) ==
    [op |-> op, id |-> "", name |-> "", brand |-> "", startPrice |-> "", finalPrice |-> "",
     page |-> "", pageSize |-> "", car |-> NoCarRequest]
NoRequest == Request("none")

\* What a handler writes: c.JSON(status, body) or handleError(c, status, message, err).
\* calls counts the data-access calls made for the request.
Success(status, body, calls) ==
    [status |-> status, message |-> "", error |-> "", body |-> body, calls |-> calls]
handleError(status, message, err, calls) ==
    [status |-> status, message |-> message, error |-> err.cause, body |-> <<>>, calls |-> calls]
Response(c, r, out) ==
    [req |-> r, status |-> out.status, message |-> out.message,
     error |-> out.error, body |-> out.body, calls |-> out.calls]
NoResp ==
    [req |-> NoRequest, status |-> 0, message |-> "", error |-> "",
     body |-> <<>>, calls |-> 0]

(***************************************************************************)
(* Validation.                                                             *)
(***************************************************************************)
\* ShouldBindJSON against a CarRequest without binding tags
ShouldBindJSON_NoTags(cr) == TRUE

\* gin's ShouldBindJSON against the binding tags of model.CarRequest:
\* name and brand required; manufacturing_value required,gt=0,lt=15000000
ShouldBindJSON(cr) ==
    /\ cr.name # ""
    /\ cr.brand # ""
    /\ cr.manufacturing_value # Amount(0, 0)
    /\ Positive(cr.manufacturing_value)
    /\ BelowLimit(cr.manufacturing_value)

\* validateCarRequest: the error it returns, NoError when the request is valid
validateCarRequest(cr) ==
    IF cr.name = "" THEN ErrorsNew("car name is required")
    ELSE IF cr.brand = "" THEN ErrorsNew("car brand is required")
    ELSE IF ~Positive(cr.manufacturing_value)
         THEN ErrorsNew("manufacturing value must be greater than 0")
    ELSE IF ~BelowLimit(cr.manufacturing_value)
         THEN ErrorsNew("manufacturing value must be less than 15,000,000")
    ELSE NoError

\* The status the handlers of GET/PUT/DELETE /cars/{id} and GET /cars/name/{name}
\* give to an error of the service
StatusOfError(err) == IF ErrorsIs(err, "sql.ErrNoRows") THEN 404 ELSE 500

(***************************************************************************)
(* The read operations: one statement each, so one step each.  Every       *)
(* Service operator gives the outcomes of the call, every Handle operator  *)
(* the responses of the handler.                                           *)
(***************************************************************************)
ServiceGetCarByID(id) ==
    IF id <= 0 THEN {[err |-> ErrorsNew("invalid car ID"), body |-> <<>>, calls |-> 0]}
    ELSE LET r == RepoGetByID(id)
         IN  IF r.err # NoError
             THEN {[err |-> ErrorfV(r.err), body |-> <<>>, calls |-> 1]}
             ELSE {[err |-> NoError, body |-> <<ToResponse(r.car)>>, calls |-> 1]}

HandleGetCarByID(idText) ==
    LET id == ParseInt(idText)
    IN  IF ~id.ok \/ id.v <= 0
        THEN {handleError(400, "Invalid car ID", ErrorsNew("invalid id"), 0)}
        ELSE {IF o.err # NoError
              THEN handleError(StatusOfError(o.err), "Failed to get car", o.err, o.calls)
              ELSE Success(200, o.body, o.calls) : o \in ServiceGetCarByID(id.v)}

ServiceGetCarByName(name) ==
    IF name = "" THEN {[err |-> ErrorsNew("car name cannot be empty"), body |-> <<>>, calls |-> 0]}
    ELSE {IF r.err # NoError
          THEN [err |-> ErrorfV(r.err), body |-> <<>>, calls |-> 1]
          ELSE [err |-> NoError, body |-> <<ToResponse(r.car)>>, calls |-> 1]
          : r \in RepoGetByName(name)}

HandleGetCarByName(name) ==
    IF name = ""
    THEN {handleError(400, "Car name is required", NoError, 0)}
    ELSE {IF o.err # NoError
          THEN handleError(StatusOfError(o.err), "Failed to get car", o.err, o.calls)
          ELSE Success(200, o.body, o.calls) : o \in ServiceGetCarByName(name)}

ServiceGetCarsByBrand(brand) ==
    IF brand = "" THEN {[err |-> ErrorsNew("brand name cannot be empty"), body |-> <<>>, calls |-> 0]}
    ELSE {IF r.err # NoError
          THEN [err |-> ErrorfV(r.err), body |-> <<>>, calls |-> 1]
          ELSE [err |-> NoError, body |-> toCarResponses(r.cars), calls |-> 1]
          : r \in RepoGetByBrand(brand)}

HandleGetCarsByBrand(brand) ==
    IF brand = ""
    THEN {handleError(400, "Brand name is required", NoError, 0)}
    ELSE {IF o.err # NoError
          THEN handleError(500, "Failed to get cars by brand", o.err, o.calls)
          ELSE Success(200, o.body, o.calls) : o \in ServiceGetCarsByBrand(brand)}

ServiceGetCarsByPriceRange(minPrice, maxPrice) ==
    IF \/ FloatLess(minPrice, Float(0))
       \/ FloatLess(maxPrice, Float(0))
       \/ FloatGreater(minPrice, maxPrice)
    THEN {[err |-> ErrorsNew("invalid price range"), body |-> <<>>, calls |-> 0]}
    ELSE {IF r.err # NoError
          THEN [err |-> ErrorfV(r.err), body |-> <<>>, calls |-> 1]
          ELSE [err |-> NoError, body |-> toCarResponses(r.cars), calls |-> 1]
          : r \in RepoGetByPriceRange(minPrice, maxPrice)}

HandleGetCarsByPriceRange(startText, finalText) ==
    LET startPrice == ParseFloat(IF startText = Absent THEN "" ELSE startText)
        finalPrice == ParseFloat(IF finalText = Absent THEN "" ELSE finalText)
    IN  IF ~startPrice.ok \/ FloatLess(startPrice.v, Float(0))
        THEN {handleError(400, "Invalid start price", ErrorsNew("invalid start price"), 0)}
        ELSE IF \/ ~finalPrice.ok
                \/ FloatLess(finalPrice.v, Float(0))
                \/ FloatLess(finalPrice.v, startPrice.v)
        THEN {handleError(400, "Invalid final price", ErrorsNew("invalid final price"), 0)}
        ELSE {IF o.err # NoError
              THEN handleError(500, "Failed to get cars by price range", o.err, o.calls)
              ELSE Success(200, o.body, o.calls)
              : o \in ServiceGetCarsByPriceRange(startPrice.v, finalPrice.v)}

\* carService.GetAllCars: the page and page size it passes to the repository
NormalizePage(page) == IF LessThanSmall(page, 1) THEN Int64OfSmall(1) ELSE page
NormalizePageSize(pageSize) ==
    IF LessThanSmall(pageSize, 1) \/ GreaterThanSmall(pageSize, 100)
    THEN Int64OfSmall(10) ELSE pageSize

ServiceGetAllCars(page, pageSize) ==
    LET r == RepoGetAll(NormalizePage(page), NormalizePageSize(pageSize))
    IN  IF r.err # NoError
        THEN [err |-> ErrorfV(r.err), body |-> <<>>, calls |-> 1]
        ELSE [err |-> NoError, body |-> toCarResponses(r.cars), calls |-> 1]

HandleGetAllCars(pageText, pageSizeText) ==
    LET page == Atoi(DefaultQuery(pageText, "1")).v
        pageSize == Atoi(DefaultQuery(pageSizeText, "10")).v
        o == ServiceGetAllCars(page, pageSize)
    IN  IF o.err # NoError
        THEN handleError(500, "Failed to get cars", o.err, o.calls)
        ELSE Success(200, o.body, o.calls)

(***************************************************************************)
(* The state machine.                                                      *)
(***************************************************************************)
\* main after ListenAndServe has started: accepting requests, the pool open
Serving == [phase |-> "serving", waited |-> 0, dbClosed |-> FALSE, exitCode |-> 0]

\* The table as CREATE TABLE leaves it.  The seed INSERT of the migration names
\* ON CONFLICT (name), for which the table has no unique constraint, so it adds
\* no row; rows come from creates only.
Init ==
    /\ cars = {}
    /\ cars_id_seq = 0
    /\ clock = 0
    /\ dbUp = TRUE
    /\ pc = [c \in Clients |-> "idle"]
    /\ req = [c \in Clients |-> NoRequest]
    /\ newId = [c \in Clients |-> 0]
    /\ resp = NoResp
    /\ issuedIds = <<>>
    /\ script = [c \in Clients |-> <<>>]
    /\ server = Serving

\* the handler of client c returns after writing out
Respond(c, r, out) ==
    /\ resp' = Response(c, r, out)
    /\ pc' = [pc EXCEPT ![c] = "idle"]
    /\ req' = [req EXCEPT ![c] = NoRequest]
    /\ newId' = [newId EXCEPT ![c] = 0]

\* the handler of client c goes on to its next statement
Proceed(c, r, next, id) ==
    /\ resp' = NoResp
    /\ pc' = [pc EXCEPT ![c] = next]
    /\ req' = [req EXCEPT ![c] = r]
    /\ newId' = [newId EXCEPT ![c] = id]

\* CarHandler.GetCarByID
GetCarByID(c, in) ==
    /\ pc[c] = "idle"
    /\ \E idText \in in.ids :
         \E out \in HandleGetCarByID(idText) :
            Respond(c, [Request("GetCarByID") EXCEPT !.id = idText], out)
    /\ UNCHANGED <<cars, cars_id_seq, clock, dbUp, issuedIds>>

\* CarHandler.GetCarByName
GetCarByName(c, in) ==
    /\ pc[c] = "idle"
    /\ \E name \in in.names :
         \E out \in HandleGetCarByName(name) :
            Respond(c, [Request("GetCarByName") EXCEPT !.name = name], out)
    /\ UNCHANGED <<cars, cars_id_seq, clock, dbUp, issuedIds>>

\* CarHandler.GetCarsByBrand
GetCarsByBrand(c, in) ==
    /\ pc[c] = "idle"
    /\ \E brand \in in.brands :
         \E out \in HandleGetCarsByBrand(brand) :
            Respond(c, [Request("GetCarsByBrand") EXCEPT !.brand = brand], out)
    /\ UNCHANGED <<cars, cars_id_seq, clock, dbUp, issuedIds>>

\* CarHandler.GetCarsByPriceRange
GetCarsByPriceRange(c, in) ==
    /\ pc[c] = "idle"
    /\ \E q \in in.priceRanges :
         LET startText == q[1]
             finalText == q[2]
         IN
         \E out \in HandleGetCarsByPriceRange(startText, finalText) :
            Respond(c, [Request("GetCarsByPriceRange") EXCEPT !.startPrice = startText,
                                                              !.finalPrice = finalText], out)
    /\ UNCHANGED <<cars, cars_id_seq, clock, dbUp, issuedIds>>

\* CarHandler.GetAllCars
GetAllCars(c, in) ==
    /\ pc[c] = "idle"
    /\ \E q \in in.pages :
         LET pageText == q[1]
             pageSizeText == q[2]
         IN
         Respond(c, [Request("GetAllCars") EXCEPT !.page = pageText, !.pageSize = pageSizeText],
                 HandleGetAllCars(pageText, pageSizeText))
    /\ UNCHANGED <<cars, cars_id_seq, clock, dbUp, issuedIds>>

(***************************************************************************)
(* POST /cars: the name lookup, the INSERT, the re-fetch.                  *)
(***************************************************************************)
\* ServiceCreateCarCheck without the rejection of a name already in use
ServiceCreateCarCheck_NoDuplicateCheck(cr) ==
    IF validateCarRequest(cr) # NoError
    THEN {[err |-> validateCarRequest(cr), calls |-> 0]}
    ELSE {[err |-> NoError, calls |-> 1] : existing \in RepoGetByName(ToModel(cr).Name)}

\* carService.CreateCar up to its INSERT: validation and the lookup by name.
\* Only a lookup that finds a car stops the create.
ServiceCreateCarCheck(cr) ==
    IF validateCarRequest(cr) # NoError
    THEN {[err |-> validateCarRequest(cr), calls |-> 0]}
    ELSE {IF existing.err = NoError
          THEN [err |-> ErrorsNew("already exists"), calls |-> 1]
          ELSE [err |-> NoError, calls |-> 1]
          : existing \in RepoGetByName(ToModel(cr).Name)}

\* the status CarHandler.CreateCar gives to an error of the service
StatusOfCreateError(err) == 500

InFlightCreates == Cardinality({c \in Clients : pc[c] = "CreateCarInsert"})

\* CarHandler.CreateCar and carService.CreateCar through GetByName
CreateCar(c, in) ==
    /\ pc[c] = "idle"
    /\ cars_id_seq + InFlightCreates < MaxIds
    /\ \E cr \in in.creates :
         LET r == [Request("CreateCar") EXCEPT !.car = cr]
         IN  IF ~ShouldBindJSON(cr)
             THEN Respond(c, r, handleError(400, "Invalid request payload",
                                            ErrorsNew("binding failed"), 0))
             ELSE \E o \in ServiceCreateCarCheck(cr) :
                    IF o.err # NoError
                    THEN Respond(c, r, handleError(StatusOfCreateError(o.err),
                                                   "Failed to create car", o.err, o.calls))
                    ELSE Proceed(c, r, "CreateCarInsert", 0)
    /\ UNCHANGED <<cars, cars_id_seq, clock, dbUp, issuedIds>>

\* carService.CreateCar: repo.Create
CreateCarInsert(c) ==
    /\ pc[c] = "CreateCarInsert"
    /\ LET o == RepoCreate(ToModel(req[c].car))
       IN  /\ cars' = o.cars
           /\ cars_id_seq' = o.seq
           /\ IF o.err # NoError
              THEN Respond(c, req[c], handleError(StatusOfCreateError(o.err), "Failed to create car",
                                                  ErrorfV(o.err), 2))
              ELSE Proceed(c, req[c], "CreateCarFetch", o.id)
    /\ UNCHANGED <<clock, dbUp, issuedIds>>

\* carService.CreateCar: repo.GetByID of the created id, and the 201 response
CreateCarFetch(c) ==
    /\ pc[c] = "CreateCarFetch"
    /\ LET o == RepoGetByID(newId[c])
       IN  IF o.err # NoError
           THEN /\ Respond(c, req[c], handleError(StatusOfCreateError(o.err), "Failed to create car",
                                                  ErrorfV(o.err), 3))
                /\ UNCHANGED issuedIds
           ELSE /\ Respond(c, req[c], Success(201, <<ToResponse(o.car)>>, 3))
                /\ issuedIds' = Append(issuedIds, o.car.ID)
    /\ UNCHANGED <<cars, cars_id_seq, clock, dbUp>>

(***************************************************************************)
(* PUT /cars/{id}: the existence check, the UPDATE, the re-fetch.          *)
(***************************************************************************)
\* CarHandler.UpdateCar and carService.UpdateCar through the first GetByID
UpdateCar(c, in) ==
    /\ pc[c] = "idle"
    /\ \E q \in in.updates :
         LET idText == q[1]
             cr == q[2]
             r == [Request("UpdateCar") EXCEPT !.id = idText, !.car = cr]
             id == ParseInt(idText)
         IN  IF ~id.ok \/ id.v <= 0
             THEN Respond(c, r, handleError(400, "Invalid car ID", ErrorsNew("invalid id"), 0))
             ELSE IF ~ShouldBindJSON(cr)
             THEN Respond(c, r, handleError(400, "Invalid request payload",
                                            ErrorsNew("binding failed"), 0))
             ELSE IF validateCarRequest(cr) # NoError
             THEN Respond(c, r, handleError(StatusOfError(validateCarRequest(cr)),
                                            "Failed to update car", validateCarRequest(cr), 0))
             ELSE LET o == RepoGetByID(id.v)
                  IN  IF o.err # NoError
                      THEN Respond(c, r, handleError(StatusOfError(ErrorfV(o.err)),
                                                     "Failed to update car",
                                                     ErrorfV(o.err), 1))
                      ELSE Proceed(c, r, "UpdateCarExec", id.v)
    /\ UNCHANGED <<cars, cars_id_seq, clock, dbUp, issuedIds>>

\* carService.UpdateCar: UpdateFromRequest and repo.Update
UpdateCarExec(c) ==
    /\ pc[c] = "UpdateCarExec"
    /\ LET o == RepoUpdate(UpdateFromRequest(newId[c], req[c].car))
       IN  /\ cars' = o.cars
           /\ IF o.err # NoError
              THEN Respond(c, req[c], handleError(StatusOfError(ErrorfV(o.err)),
                                                  "Failed to update car",
                                                  ErrorfV(o.err), 2))
              ELSE Proceed(c, req[c], "UpdateCarFetch", newId[c])
    /\ UNCHANGED <<cars_id_seq, clock, dbUp, issuedIds>>

\* carService.UpdateCar: repo.GetByID of the updated id, and the 200 response
UpdateCarFetch(c) ==
    /\ pc[c] = "UpdateCarFetch"
    /\ LET o == RepoGetByID(newId[c])
       IN  IF o.err # NoError
           THEN Respond(c, req[c], handleError(StatusOfError(ErrorfV(o.err)),
                                               "Failed to update car",
                                               ErrorfV(o.err), 3))
           ELSE Respond(c, req[c], Success(200, <<ToResponse(o.car)>>, 3))
    /\ UNCHANGED <<cars, cars_id_seq, clock, dbUp, issuedIds>>

(***************************************************************************)
(* DELETE /cars/{id}: the existence check, the soft delete.                *)
(***************************************************************************)
\* CarHandler.DeleteCar and carService.DeleteCar through GetByID
DeleteCar(c, in) ==
    /\ pc[c] = "idle"
    /\ \E idText \in in.deletes :
         LET r == [Request("DeleteCar") EXCEPT !.id = idText]
             id == ParseInt(idText)
         IN  IF ~id.ok \/ id.v <= 0
             THEN Respond(c, r, handleError(400, "Invalid car ID", ErrorsNew("invalid id"), 0))
             ELSE LET o == RepoGetByID(id.v)
                  IN  IF o.err # NoError
                      THEN Respond(c, r, handleError(StatusOfError(ErrorfV(o.err)),
                                                     "Failed to delete car",
                                                     ErrorfV(o.err), 1))
                      ELSE Proceed(c, r, "DeleteCarExec", id.v)
    /\ UNCHANGED <<cars, cars_id_seq, clock, dbUp, issuedIds>>

\* carService.DeleteCar: repo.Delete, and the 204 response
DeleteCarExec(c) ==
    /\ pc[c] = "DeleteCarExec"
    /\ LET o == RepoDelete(newId[c])
       IN  /\ cars' = o.cars
           /\ IF o.err # NoError
              THEN Respond(c, req[c], handleError(StatusOfError(ErrorfV(o.err)),
                                                  "Failed to delete car",
                                                  ErrorfV(o.err), 2))
              ELSE Respond(c, req[c], Success(204, <<>>, 2))
    /\ UNCHANGED <<cars_id_seq, clock, dbUp, issuedIds>>

(***************************************************************************)
(* Time and the storage engine.                                            *)
(***************************************************************************)
Tick ==
    /\ resp = NoResp
    /\ clock < MaxClock
    /\ clock' = clock + 1
    /\ resp' = NoResp
    /\ UNCHANGED <<cars, cars_id_seq, dbUp, pc, req, newId, issuedIds, script, server>>

\* The response written by the last step leaves the server; the next step of any
\* handler starts from an empty output.
Deliver ==
    /\ resp # NoResp
    /\ resp' = NoResp
    /\ UNCHANGED <<cars, cars_id_seq, clock, dbUp, pc, req, newId, issuedIds, script, server>>

\* One step of the handler serving client c.  in gives the requests clients send:
\* the texts of ids, names and brands, the (start, final) price texts, the
\* (page, pageSize) texts, the bodies of creates and the (id, body) of updates.
HandlerStep(c, in) ==
    /\ resp = NoResp
    /\ \/ GetCarByID(c, in)
       \/ GetCarByName(c, in)
       \/ GetCarsByBrand(c, in)
       \/ GetCarsByPriceRange(c, in)
       \/ GetAllCars(c, in)
       \/ CreateCar(c, in)
       \/ CreateCarInsert(c)
       \/ CreateCarFetch(c)
       \/ UpdateCar(c, in)
       \/ UpdateCarExec(c)
       \/ UpdateCarFetch(c)
       \/ DeleteCar(c, in)
       \/ DeleteCarExec(c)

\* A step of the handler serving a client that sends requests in any order.
Handle(c, in) == HandlerStep(c, in) /\ UNCHANGED <<script, server>>

ValidCarRequests ==
    {CarRequest("a", "x", Amount(100, 0), "d"),
     CarRequest("b", "y", Amount(100, 5), NoDescription)}

\* One request at a time, a single client: every body and every id, name and
\* brand of the model.
SeqInputs ==
    [ids |-> IdTexts, names |-> NameTexts, brands |-> BrandTexts,
     priceRanges |-> {<<"0", "1.01">>},
     pages |-> {<<Absent, Absent>>},
     creates |-> CarRequests,
     updates |-> ({"abc", "-1", "0"} \X {CarRequest("a", "x", Amount(100, 0), "d")})
                   \cup ({"1", "2", "3"} \X CarRequests),
     deletes |-> IdTexts]
SeqNext == Tick \/ Deliver \/ Handle("c1", SeqInputs)
SeqSpec == Init /\ [][SeqNext]_vars

\* One request at a time, a single client: every query of the filters and of the
\* paged listing, over the tables that valid creates, updates and deletes build.
PriceRangeQueries ==
    {<<"0", "0">>, <<"0", "1">>, <<"0", "1.01">>, <<"1", "1">>, <<"1", "1.01">>,
     <<"1.01", "1.01">>, <<"1.01", "1">>, <<"-1", "1">>, <<"0", "-1">>,
     <<"abc", "1">>, <<"0", "abc">>, <<Absent, "1">>, <<"0", Absent>>,
     <<"NaN", "1">>, <<"0", "NaN">>, <<"NaN", "NaN">>}
PageQueries ==
    {<<"1", "1">>, <<"2", "1">>, <<"3", "1">>, <<"1", "2">>, <<"2", "2">>, <<"1", "100">>,
     <<Absent, Absent>>, <<"abc", "abc">>, <<"0", "0">>, <<"-1", "101">>, <<"2", "101">>,
     <<"9223372036854775807", "1">>, <<"9223372036854775807", "2">>,
     <<"9223372036854775807", Absent>>, <<"9223372036854775808", "100">>,
     <<"288230376151711745", "64">>}
QueryInputs ==
    [ids |-> {"1"}, names |-> {"a"}, brands |-> {"x"},
     priceRanges |-> PriceRangeQueries,
     pages |-> PageQueries,
     creates |-> ValidCarRequests,
     updates |-> {"1", "2"} \X ValidCarRequests,
     deletes |-> {"1", "2"}]
QueryNext == Tick \/ Deliver \/ Handle("c1", QueryInputs)
QuerySpec == Init /\ [][QueryNext]_vars

\* Requests of all clients, interleaved statement by statement.
ConcurrentInputs ==
    [ids |-> {"1", "2"}, names |-> {"a", "b"}, brands |-> {"x"},
     priceRanges |-> {<<"0", "1.01">>},
     pages |-> {<<"1", "1">>},
     creates |-> ValidCarRequests \cup {CarRequest("a", "y", Amount(0, 4), "d")},
     updates |-> {"1", "2"} \X ValidCarRequests,
     deletes |-> {"1", "2"}]
Next == Tick \/ Deliver \/ \E c \in Clients : Handle(c, ConcurrentInputs)
Spec == Init /\ [][Next]_vars

\* a client that sends nothing
NoInputs ==
    [ids |-> {}, names |-> {}, brands |-> {}, priceRanges |-> {}, pages |-> {},
     creates |-> {}, updates |-> {}, deletes |-> {}]

\* Clients that only write, their statements interleaved: creates under one name,
\* updates and deletes of the first id the creates produce.
WriteInputs ==
    [NoInputs EXCEPT !.creates = {CarRequest("a", "x", Amount(100, 0), "d")},
                     !.updates = {"1"} \X ValidCarRequests,
                     !.deletes = {"1"}]
WriteStep(c) ==
    /\ resp = NoResp
    /\ \/ CreateCar(c, WriteInputs)
       \/ CreateCarInsert(c)
       \/ CreateCarFetch(c)
       \/ UpdateCar(c, WriteInputs)
       \/ UpdateCarExec(c)
       \/ UpdateCarFetch(c)
       \/ DeleteCar(c, WriteInputs)
       \/ DeleteCarExec(c)
    /\ UNCHANGED <<script, server>>
WriteNext == Tick \/ Deliver \/ \E c \in Clients : WriteStep(c)
WriteSpec == Init /\ [][WriteNext]_vars

\* The storage engine stops answering: every statement fails until it recovers.
DbFail ==
    /\ resp = NoResp
    /\ dbUp
    /\ dbUp' = FALSE
    /\ UNCHANGED <<cars, cars_id_seq, clock, pc, req, newId, resp, issuedIds, script, server>>
DbRecover ==
    /\ resp = NoResp
    /\ ~dbUp
    /\ dbUp' = TRUE
    /\ UNCHANGED <<cars, cars_id_seq, clock, pc, req, newId, resp, issuedIds, script, server>>

\* One request at a time against a storage engine that fails and recovers
\* between statements.
FaultInputs ==
    [ids |-> {"1"}, names |-> {"a"}, brands |-> {"x"},
     priceRanges |-> {<<"0", "1.01">>},
     pages |-> {<<"1", "1">>},
     creates |-> {CarRequest("a", "x", Amount(100, 0), "d")},
     updates |-> {"1"} \X ValidCarRequests,
     deletes |-> {"1"}]
FaultNext == Tick \/ Deliver \/ DbFail \/ DbRecover \/ Handle("c1", FaultInputs)
FaultSpec == Init /\ [][FaultNext]_vars

(***************************************************************************)
(* main: the termination signal, srv.Shutdown under its 5 s context, the   *)
(* deferred db.Close().  A handler is in flight while its pc is not idle.  *)
(***************************************************************************)
\* no handler is running: every connection of the server is idle
AllIdle == \A c \in Clients : pc[c] = "idle"

\* <-quit: SIGINT or SIGTERM arrives; main calls srv.Shutdown, which closes the
\* listeners at once
Signal ==
    /\ server.phase = "serving"
    /\ server' = [server EXCEPT !.phase = "shuttingDown"]
    /\ UNCHANGED <<cars, cars_id_seq, clock, dbUp, pc, req, newId, resp, issuedIds, script>>

\* one second of the 5 s context passes while srv.Shutdown waits
GraceTick ==
    /\ server.phase = "shuttingDown"
    /\ server.waited < GracePeriod
    /\ server' = [server EXCEPT !.waited = @ + 1]
    /\ UNCHANGED <<cars, cars_id_seq, clock, dbUp, pc, req, newId, resp, issuedIds, script>>

\* srv.Close() in the place of srv.Shutdown(ctx): it returns at once, whatever
\* is in flight, and main returns through its deferred db.Close()
ShutdownComplete_WithoutWaiting ==
    /\ server.phase = "shuttingDown"
    /\ server' = [server EXCEPT !.phase = "exited", !.dbClosed = TRUE, !.exitCode = 0]
    /\ UNCHANGED <<cars, cars_id_seq, clock, dbUp, pc, req, newId, resp, issuedIds, script>>

\* srv.Shutdown returns nil once every connection is idle; main logs, returns,
\* and its deferred db.Close() runs before the process exits with code 0
ShutdownComplete ==
    /\ server.phase = "shuttingDown"
    /\ AllIdle
    /\ server' = [server EXCEPT !.phase = "exited", !.dbClosed = TRUE, !.exitCode = 0]
    /\ UNCHANGED <<cars, cars_id_seq, clock, dbUp, pc, req, newId, resp, issuedIds, script>>

\* the context expires: srv.Shutdown returns its error and logger.Fatalf exits
\* the process with code 1; os.Exit runs no deferred call, so db.Close() is never
\* called and the connections go down with the process, the handlers in flight
\* with them
GraceExpire ==
    /\ server.phase = "shuttingDown"
    /\ server.waited = GracePeriod
    /\ server' = [server EXCEPT !.phase = "exited", !.exitCode = 1]
    /\ UNCHANGED <<cars, cars_id_seq, clock, dbUp, pc, req, newId, resp, issuedIds, script>>

\* A step of the handler serving client c: a new request is accepted only while
\* the listeners are open, a request in flight goes on until the process exits.
ShutdownInputs ==
    [NoInputs EXCEPT !.ids = {"1"},
                     !.creates = {CarRequest("a", "x", Amount(100, 0), "d")},
                     !.deletes = {"1"}]
ServeStep(c) ==
    /\ server.phase # "exited"
    /\ pc[c] = "idle" => server.phase = "serving"
    /\ HandlerStep(c, ShutdownInputs)
    /\ UNCHANGED <<script, server>>

ShutdownNext ==
    \/ Tick \/ Deliver
    \/ Signal \/ GraceTick \/ ShutdownComplete \/ GraceExpire
    \/ \E c \in Clients : ServeStep(c)
\* Time passes and srv.Shutdown returns when it can: the timer of the context
\* and the return of Shutdown need no step of any handler.
ShutdownSpec ==
    /\ Init /\ [][ShutdownNext]_vars
    /\ WF_vars(GraceTick) /\ WF_vars(GraceExpire) /\ WF_vars(ShutdownComplete)

(***************************************************************************)
(* The scripted scenario of the load test (car_service.go, lines 276-357): *)
(* every client creates a car under a name of its own, gets it by id and   *)
(* by name, renames it with another value, lists by brand, by price range  *)
(* and by page, and deletes it, each request sent when the response to the *)
(* one before has arrived.  script[c] holds the responses client c has     *)
(* received.                                                               *)
(***************************************************************************)
\* generateRandomCar: a name no other client uses, a value in whole units
ScriptCar(c) ==
    IF c = "c1" THEN CarRequest("a", "x", Amount(100, 0), "d")
    ELSE CarRequest("b", "y", Amount(300, 0), NoDescription)
\* updatedCar: the same car under a new name with a higher value
ScriptUpdate(c) ==
    IF c = "c1" THEN CarRequest("a2", "x", Amount(200, 0), "d")
    ELSE CarRequest("b2", "y", Amount(400, 0), NoDescription)
\* the path text of an id
IdText(id) == CHOOSE t \in IdTexts : ParseInt(t) = Parsed(id)

\* the request client c sends next; without a 201 it has no carId to go on with
ScriptInputs(c) ==
    LET k == Len(script[c])
        carId == IdText(script[c][1].body[1].id)
    IN  IF k = 0 THEN [NoInputs EXCEPT !.creates = {ScriptCar(c)}]
        ELSE IF script[c][1].status # 201 THEN NoInputs
        ELSE IF k = 1 THEN [NoInputs EXCEPT !.ids = {carId}]
        ELSE IF k = 2 THEN [NoInputs EXCEPT !.names = {ScriptCar(c).name}]
        ELSE IF k = 3 THEN [NoInputs EXCEPT !.updates = {<<carId, ScriptUpdate(c)>>}]
        ELSE IF k = 4 THEN [NoInputs EXCEPT !.brands = {"x"}]
        ELSE IF k = 5 THEN [NoInputs EXCEPT !.priceRanges = {<<"1", "1.01">>}]
        ELSE IF k = 6 THEN [NoInputs EXCEPT !.pages = {<<"1", "10">>}]
        ELSE IF k = 7 THEN [NoInputs EXCEPT !.deletes = {carId}]
        ELSE NoInputs

\* A step of the handler serving client c's scenario; c records the response.
ScriptStep(c) ==
    /\ HandlerStep(c, ScriptInputs(c))
    /\ script' = IF resp' = NoResp THEN script
                 ELSE [script EXCEPT ![c] = Append(@, [status |-> resp'.status,
                                                       body |-> resp'.body])]
    /\ UNCHANGED server
ScriptNext == Tick \/ Deliver \/ \E c \in Clients : ScriptStep(c)
ScriptSpec == Init /\ [][ScriptNext]_vars

(***************************************************************************)
(* The claims.                                                             *)
(***************************************************************************)
PathId(r) == ParseInt(r.id)
WellFormedId(r) == PathId(r).ok /\ PathId(r).v > 0
\* the fields of a body pass the rules of create and update
ValidFields(cr) ==
    /\ cr.name # ""
    /\ cr.brand # ""
    /\ Positive(cr.manufacturing_value)
    /\ cr.manufacturing_value.cents < 15000000 * 100
LiveWithId(id) == \E r \in cars : r.id = id /\ r.deleted_at = NullTime
LiveWithName(name) == \E r \in cars : r.name = name /\ r.deleted_at = NullTime

\* C1: a GET by id, a GET by name, a PUT with a valid body or a DELETE, with a
\* well-formed positive id (a non-empty name), whose target has no live record
\* is answered 404.  (A response after at most one data-access call leaves the
\* table as the request found it.)
C1_AbsentTargetAnswers404 ==
    LET r == resp.req
    IN  (/\ resp.calls <= 1
         /\ \/ /\ r.op \in {"GetCarByID", "DeleteCar"}
               /\ WellFormedId(r)
               /\ ~LiveWithId(PathId(r).v)
            \/ /\ r.op = "UpdateCar"
               /\ WellFormedId(r)
               /\ ValidFields(r.car)
               /\ ~LiveWithId(PathId(r).v)
            \/ /\ r.op = "GetCarByName"
               /\ r.name # ""
               /\ ~LiveWithName(r.name))
        => resp.status = 404

\* a create of client c passes its checks and goes on to its INSERT
C2_Proceeds(c) == pc[c] = "idle" /\ pc'[c] = "CreateCarInsert"
\* a create is answered by its first step
C2_Answered == pc' = pc /\ resp = NoResp /\ resp'.req.op = "CreateCar"

\* C2: with one request at a time, a create with valid fields whose name a live
\* record already carries is rejected: it never proceeds to its INSERT, and the
\* step that answers it changes no row and inserts none.
C2_DuplicateNameRejected ==
    [][/\ \A c \in Clients :
            C2_Proceeds(c) => ~(ValidFields(req'[c].car) /\ LiveWithName(req'[c].car.name))
       /\ (C2_Answered /\ ValidFields(resp'.req.car) /\ LiveWithName(resp'.req.car.name))
          => /\ resp'.status >= 400
             /\ resp'.body = <<>>
             /\ cars' = cars]_vars
C2_Witness ==
    /\ resp.req.op = "CreateCar"
    /\ ValidFields(resp.req.car)
    /\ resp.status >= 400
    /\ resp.error = "already exists"
    /\ LiveWithName(resp.req.car.name)

\* C3: a POST /cars whose name a live record carries is answered with a 4xx
\* status and a message.
C3_DuplicateIsClientError ==
    (resp.req.op = "CreateCar" /\ resp.error = "already exists")
    => (resp.status >= 400 /\ resp.status <= 499 /\ resp.message # "")

\* C4: a response of getById, getByName, listByBrand, listByValueRange or the
\* paged listing carries live records only, whatever creates, updates and
\* deletes came before.
ReadOps ==
    {"GetCarByID", "GetCarByName", "GetCarsByBrand", "GetCarsByPriceRange", "GetAllCars"}
C4_ReadsReturnOnlyLive ==
    resp.req.op \in ReadOps
    => \A i \in 1..Len(resp.body) :
          \E r \in cars : r.id = resp.body[i].id /\ r.deleted_at = NullTime
C4_Witness ==
    /\ resp.req.op = "GetCarsByBrand"
    /\ resp.status = 200
    /\ Len(resp.body) = 1
    /\ \E r \in cars : r.brand = resp.req.brand /\ r.deleted_at # NullTime

\* C5: a create or update whose value is <= 0 or >= 15,000,000, or whose name
\* or brand is empty, is answered 400 without any data-access call, and never
\* reaches a statement.
C5_InvalidFieldsRejected ==
    /\ (resp.req.op \in {"CreateCar", "UpdateCar"} /\ ~ValidFields(resp.req.car))
       => (resp.status = 400 /\ resp.calls = 0)
    /\ \A c \in Clients : pc[c] # "idle" => ValidFields(req[c].car) \/ req[c].op = "DeleteCar"
C5_Witness ==
    /\ resp.req.op = "CreateCar"
    /\ resp.req.car.manufacturing_value = Amount(15000000 * 100, 0)
    /\ resp.status = 400
    /\ resp.calls = 0

\* a create answered with success, and what its record must be apart from the value
C6_Created == resp.req.op = "CreateCar" /\ resp.status \in 200..299
C6_RecordOfRequest ==
    LET b == resp.body[1]
        cr == resp.req.car
    IN  /\ resp.status = 201
        /\ Len(resp.body) = 1
        /\ b.id > 0 /\ b.id <= cars_id_seq
        /\ \E r \in cars : r.id = b.id /\ r.deleted_at = NullTime
        /\ issuedIds # <<>> /\ issuedIds[Len(issuedIds)] = b.id
        /\ \A i, j \in 1..Len(issuedIds) : issuedIds[i] = issuedIds[j] => i = j
        /\ b.name = cr.name /\ b.brand = cr.brand /\ b.description = cr.description
        /\ b.created_at = b.updated_at

PageOf(r) == Atoi(DefaultQuery(r.page, "1")).v
PageSizeOf(r) == Atoi(DefaultQuery(r.pageSize, "10")).v
\* the number of live records with an id up to r's: r's position by ascending id
LiveRank(r) == Cardinality({o \in cars : o.deleted_at = NullTime /\ o.id <= r.id})
BodyIds == {resp.body[i].id : i \in 1..Len(resp.body)}
BodyById ==
    /\ \A i, j \in 1..Len(resp.body) : i < j => resp.body[i].id < resp.body[j].id
    /\ \A i \in 1..Len(resp.body) :
          \E r \in cars : resp.body[i] = ToResponse(ScanCar(r))
\* the ids of the live records at positions (page-1)*pageSize+1 .. page*pageSize;
\* the table holds fewer than 2^16 rows, so a page of more than one limb is past its end
IdsOfPage(page, pageSize) ==
    IF ~FitsOneLimb(page) THEN {}
    ELSE {r.id : r \in {o \in cars : /\ o.deleted_at = NullTime
                                     /\ LiveRank(o) >= (page[1] - 1) * pageSize[1] + 1
                                     /\ LiveRank(o) <= page[1] * pageSize[1]}}
C7_InRange(r) ==
    /\ r.op = "GetAllCars"
    /\ ~LessThanSmall(PageOf(r), 1)
    /\ ~LessThanSmall(PageSizeOf(r), 1)
    /\ ~GreaterThanSmall(PageSizeOf(r), 100)

\* C7: for page >= 1 and pageSize in [1,100] the paged listing answers with
\* exactly the live records at positions (page-1)*pageSize+1 .. page*pageSize of
\* the live records by ascending id.
C7_PageIsSliceByAscendingId ==
    C7_InRange(resp.req)
    => /\ resp.status = 200
       /\ BodyById
       /\ BodyIds = IdsOfPage(PageOf(resp.req), PageSizeOf(resp.req))

\* The same for the pages whose offset (page-1)*pageSize the machine integer
\* holds (here: pages of one limb); on these the listing is the slice.
PageIsSliceWhereOffsetFits ==
    (C7_InRange(resp.req) /\ FitsOneLimb(PageOf(resp.req)))
    => /\ resp.status = 200
       /\ BodyById
       /\ BodyIds = IdsOfPage(PageOf(resp.req), PageSizeOf(resp.req))

\* C8: the paged listing never fails because of its page or pageSize: any text
\* is accepted, and the values passed on are page >= 1 and 1 <= pageSize <= 100.
C8_ListingNeverFailsOnItsParameters ==
    resp.req.op = "GetAllCars"
    => /\ resp.status = 200
       /\ ~LessThanSmall(NormalizePage(PageOf(resp.req)), 1)
       /\ ~LessThanSmall(NormalizePageSize(PageSizeOf(resp.req)), 1)
       /\ ~GreaterThanSmall(NormalizePageSize(PageSizeOf(resp.req)), 100)

\* the texts of the model that are decimal numerals, and their values in cents
DecimalTexts == {"-1", "0", "1", "1.01"}
CentsOf(s) == ParseFloat(s).v.cents

\* C9: for 0 <= startPrice <= finalPrice the price-range filter answers with
\* exactly the live records whose value v has startPrice <= v <= finalPrice,
\* each once; a value equal to either bound is included.
C9_PriceRangeIsInclusive ==
    LET r == resp.req
    IN  (/\ r.op = "GetCarsByPriceRange"
         /\ r.startPrice \in DecimalTexts /\ r.finalPrice \in DecimalTexts
         /\ 0 <= CentsOf(r.startPrice) /\ CentsOf(r.startPrice) <= CentsOf(r.finalPrice))
        => /\ resp.status = 200
           /\ BodyIds = {c.id : c \in {o \in cars : /\ o.deleted_at = NullTime
                                                   /\ CentsOf(r.startPrice) <= o.manufacturing_value
                                                   /\ o.manufacturing_value <= CentsOf(r.finalPrice)}}
           /\ Len(resp.body) = Cardinality(BodyIds)
           /\ \A i \in 1..Len(resp.body) :
                 \E o \in cars : resp.body[i] = ToResponse(ScanCar(o))
C9_Witness ==
    /\ resp.req.op = "GetCarsByPriceRange"
    /\ resp.req.startPrice = "1" /\ resp.req.finalPrice = "1.01"
    /\ resp.status = 200
    /\ {resp.body[i].manufacturing_value : i \in 1..Len(resp.body)} = {100, 101}

\* C10: a price-range request with a negative bound, with finalPrice < startPrice,
\* or with a bound that is missing or not numeric is answered 400 and issues no
\* query.
C10_InvalidRangeRejected ==
    LET r == resp.req
    IN  (/\ r.op = "GetCarsByPriceRange"
         /\ \/ r.startPrice \notin DecimalTexts
            \/ r.finalPrice \notin DecimalTexts
            \/ CentsOf(r.startPrice) < 0
            \/ CentsOf(r.finalPrice) < 0
            \/ CentsOf(r.finalPrice) < CentsOf(r.startPrice))
        => (resp.status = 400 /\ resp.calls = 0)

\* the row stored under id, soft-deleted
DeletedWithId(id) == \E r \in cars : r.id = id /\ r.deleted_at # NullTime
\* a delete is answered by this step
DeleteAnswered == resp = NoResp /\ resp'.req.op = "DeleteCar"

\* C11: the first delete of a live record succeeds and sets its deleted-at; a
\* second delete of the same id fails with the not-found condition (404) and
\* leaves every row unchanged.
C11_SecondDeleteIsNotFound ==
    [][DeleteAnswered =>
         /\ resp'.status = 204
            => \E r \in cars :
                  /\ r.id = PathId(resp'.req).v /\ r.deleted_at = NullTime
                  /\ \E d \in cars' : d.id = r.id /\ d.deleted_at = clock
                  /\ \A o \in cars : o.id # r.id => o \in cars'
         /\ (WellFormedId(resp'.req) /\ DeletedWithId(PathId(resp'.req).v))
            => /\ resp'.status = 404
               /\ cars' = cars]_vars

\* The second delete as the service answers it: it fails on its existence check
\* with an error that says "not found" and writes nothing; the first delete
\* stamps deleted-at on its row and on no other.
SecondDeleteFailsWithoutWriting ==
    [][DeleteAnswered =>
         /\ resp'.status = 204
            => \E r \in cars :
                  /\ r.id = PathId(resp'.req).v /\ r.deleted_at = NullTime
                  /\ \E d \in cars' : d.id = r.id /\ d.deleted_at = clock
                  /\ \A o \in cars : o.id # r.id => o \in cars'
         /\ (WellFormedId(resp'.req) /\ DeletedWithId(PathId(resp'.req).v))
            => /\ resp'.status >= 400
               /\ resp'.error = "not found"
               /\ resp'.calls = 1
               /\ cars' = cars]_vars

\* name n is carried by soft-deleted rows only
NameOnlyDeleted(n) ==
    /\ ~LiveWithName(n)
    /\ \E r \in cars : r.name = n /\ r.deleted_at # NullTime
\* the value as the DECIMAL(15,2) column holds it passes the column's CHECK
C12_StorableValue(v) ==
    LET cents == v.cents + (IF v.mills >= 5 THEN 1 ELSE 0)
    IN  cents > 0 /\ cents < 15000000 * 100
\* the INSERT of client c's create adds one live row under a new id and keeps the rest
C12_Inserted(c) ==
    /\ pc'[c] = "CreateCarFetch"
    /\ newId'[c] = cars_id_seq + 1
    /\ \A r \in cars : r.id # newId'[c] /\ r \in cars'
    /\ \E r \in cars' : /\ r.id = newId'[c]
                        /\ r.name = req[c].car.name
                        /\ r.deleted_at = NullTime
\* the re-fetch of client c's create answers 201 with the new live record
C12_Returned(c) ==
    /\ resp'.status = 201
    /\ Len(resp'.body) = 1
    /\ resp'.body[1].id = newId[c]
    /\ resp'.body[1].name = req[c].car.name
    /\ LiveWithId(newId[c])
    /\ cars' = cars

C13_CreatedFields(c, body) ==
    /\ Len(body) = 1
    /\ body[1].id = script[c][1].body[1].id
    /\ body[1].name = ScriptCar(c).name
    /\ body[1].brand = ScriptCar(c).brand
    /\ Amount(body[1].manufacturing_value, 0) = ScriptCar(c).manufacturing_value
    /\ body[1].description = ScriptCar(c).description

\* C13: every client that creates a car under a name of its own, gets it by id
\* and by name, renames it to another unused name with another value and deletes
\* it is answered 201, 200, 200, 200 and 204 in that order (the three listings the
\* load test sends before the delete are answered 200), the GETs returning the
\* created fields, while the other clients run the same sequence.
C13_ScenarioAnswers ==
    \A c \in Clients :
        /\ \A i \in 1..Len(script[c]) :
              script[c][i].status = <<201, 200, 200, 200, 200, 200, 200, 204>>[i]
        /\ Len(script[c]) >= 2 => C13_CreatedFields(c, script[c][2].body)
        /\ Len(script[c]) >= 3 => C13_CreatedFields(c, script[c][3].body)
C13_Witness ==
    /\ Len(script["c1"]) = 8
    /\ script["c1"][8].status = 204
    /\ Len(script["c2"]) = 3
    /\ pc["c2"] = "UpdateCarFetch"

\* C14: with one request at a time, no two live records have the same name,
\* whatever creates, updates and deletes were issued.
C14_LiveNamesDistinct ==
    \A r1, r2 \in cars :
        (r1.deleted_at = NullTime /\ r2.deleted_at = NullTime /\ r1.name = r2.name)
        => r1.id = r2.id

\* Creates and deletes alone keep live names distinct: a step that is not the
\* UPDATE of a PUT never makes two live records share a name.
OnlyUpdateBreaksLiveNamesDistinct ==
    [][(C14_LiveNamesDistinct /\ ~C14_LiveNamesDistinct')
       => \E c \in Clients : pc[c] = "UpdateCarExec" /\ pc'[c] # "UpdateCarExec"]_vars

\* C15: every stored record has a value strictly between 0 and 15,000,000 and a
\* non-empty name and brand, whatever creates and updates were issued, by
\* whatever clients.
C15_StoredFieldsInRange ==
    \A r \in cars :
        /\ r.manufacturing_value > 0
        /\ r.manufacturing_value < 15000000 * 100
        /\ r.name # ""
        /\ r.brand # ""
C15_Witness ==
    /\ \E r \in cars : r.manufacturing_value = 101
    /\ resp.req.op = "CreateCar"
    /\ resp.req.car.manufacturing_value = Amount(15000000 * 100 - 1, 5)
    /\ resp.status = 500

\* the UPDATE of client c's PUT goes through
C16_UpdateStep(c) == pc[c] = "UpdateCarExec" /\ pc'[c] = "UpdateCarFetch"
\* a step of client c's PUT finds no live target
C16_NoTargetStep(c) ==
    \/ /\ pc[c] = "idle" /\ pc' = pc
       /\ resp = NoResp /\ resp'.req.op = "UpdateCar"
       /\ WellFormedId(resp'.req) /\ ~LiveWithId(PathId(resp'.req).v)
    \/ /\ pc[c] = "UpdateCarExec" /\ pc'[c] # "UpdateCarExec"
       /\ ~LiveWithId(newId[c])
\* the row of the target carries the request's name, brand and description and
\* value cents, keeps its id and created_at, and no other row changes
C16_Replaced(c, cents) ==
    \E old \in cars, new \in cars' :
        /\ old.id = newId[c] /\ old.deleted_at = NullTime
        /\ new.id = old.id
        /\ new.created_at = old.created_at
        /\ new.deleted_at = NullTime
        /\ new.name = req[c].car.name
        /\ new.brand = req[c].car.brand
        /\ new.description = req[c].car.description
        /\ new.manufacturing_value = cents
        /\ cars' \ {new} = cars \ {old}

\* C16 as stated: a successful update replaces name, brand, value and description
\* of its record with exactly the request's, keeps the record's id and created_at
\* and every other row; an update without a live target changes no row.
C16_UpdateReplacesExactly ==
    [][\A c \in Clients :
         /\ C16_UpdateStep(c)
            => /\ req[c].car.manufacturing_value.mills = 0
               /\ C16_Replaced(c, req[c].car.manufacturing_value.cents)
         /\ C16_NoTargetStep(c) => cars' = cars]_vars

\* C16 as amended: the same, with the value replaced by the request's value
\* rounded to two decimal places.
C16_UpdateReplacesRounded ==
    [][\A c \in Clients :
         /\ C16_UpdateStep(c)
            => C16_Replaced(c, req[c].car.manufacturing_value.cents
                                + (IF req[c].car.manufacturing_value.mills >= 5 THEN 1 ELSE 0))
         /\ C16_NoTargetStep(c) => cars' = cars]_vars
C16_Witness ==
    /\ resp.req.op = "UpdateCar"
    /\ resp.status = 200
    /\ resp.req.car.description = NoDescription
    /\ resp.body[1].description = NoDescription
    /\ resp.body[1].manufacturing_value = 101
    /\ \E r \in cars : r.id # resp.body[1].id /\ r.deleted_at = NullTime

\* a PUT answered with success
C17_Updated == resp.req.op = "UpdateCar" /\ resp.status = 200 /\ Len(resp.body) = 1

C18_DeletionIsPermanent ==
    [][/\ \A r \in cars :
            /\ \E n \in cars' : n.id = r.id
            /\ r.deleted_at # NullTime
               => \E n \in cars' :
                     /\ n.id = r.id
                     /\ n.deleted_at = r.deleted_at
                     /\ n.name = r.name
                     /\ n.brand = r.brand
                     /\ n.manufacturing_value = r.manufacturing_value
                     /\ n.description = r.description
       /\ \A c \in Clients :
            (/\ pc[c] = "UpdateCarExec" /\ pc'[c] # "UpdateCarExec"
             /\ DeletedWithId(newId[c]))
            => /\ cars' = cars
               /\ resp'.status >= 400]_vars
C18_Witness ==
    /\ resp.req.op = "UpdateCar"
    /\ resp.calls = 2
    /\ resp.status >= 400
    /\ resp.error = "not found"
    /\ DeletedWithId(PathId(resp.req).v)

\* C19: the uniqueness check and the INSERT of a create are separate statements
\* with nothing to hold them together: the INSERT of a create that passed its
\* check inserts its row whether or not a live record has taken the name in the
\* meantime, so two concurrent creates of one name both insert.
C19_InsertDoesNotRecheckName ==
    [][\A c \in Clients :
         (/\ pc[c] = "CreateCarInsert" /\ pc'[c] # "CreateCarInsert"
          /\ C12_StorableValue(req[c].car.manufacturing_value))
         => /\ pc'[c] = "CreateCarFetch"
            /\ \E r \in cars' \ cars : /\ r.id = newId'[c]
                                       /\ r.name = req[c].car.name
                                       /\ r.deleted_at = NullTime]_vars
C19_Witness ==
    \E r1, r2 \in cars :
        /\ r1.id # r2.id
        /\ r1.name = r2.name
        /\ r1.deleted_at = NullTime /\ r2.deleted_at = NullTime
        /\ \A c \in Clients : pc[c] = "CreateCarFetch" /\ req[c].car.name = r1.name

\* the step is one of client c's handler, made while every statement fails
C20_FailedCall(c) ==
    /\ ~dbUp
    /\ \/ pc'[c] # pc[c]
       \/ /\ pc' = pc /\ pc[c] = "idle"
          /\ resp = NoResp /\ resp' # NoResp /\ resp'.calls >= 1
\* the operation ends there with an error and writes nothing
C20_EndsWithError(c) ==
    /\ pc'[c] = "idle"
    /\ resp'.status >= 400
    /\ resp'.error # ""
    /\ cars' = cars

\* C20: whenever a data-access call of an operation fails with a storage failure,
\* the operation returns an error there and then, with no further storage write;
\* the name lookup of create is no exception.
C20_NoFailureIsSwallowed ==
    [][\A c \in Clients : C20_FailedCall(c) => C20_EndsWithError(c)]_vars

\* The same for every call but the name lookup of create: a storage failure of
\* any other call ends its operation with an error.
NoFailureIsSwallowedExceptByCreateLookup ==
    [][\A c \in Clients :
         (C20_FailedCall(c) /\ ~(pc[c] = "idle" /\ pc'[c] = "CreateCarInsert"))
         => C20_EndsWithError(c)]_vars

\* a request is accepted in this step: an idle client's handler starts
C21_Accepted ==
    \E c \in Clients :
        /\ pc[c] = "idle"
        /\ \/ pc'[c] # "idle"
           \/ pc' = pc /\ resp = NoResp /\ resp' # NoResp
\* the storage connections go down in this step, by db.Close() or with the process
C21_ConnectionCloses ==
    \/ ~server.dbClosed /\ server'.dbClosed
    \/ server.phase # "exited" /\ server'.phase = "exited"

\* C21: after the termination signal no new request is accepted; the requests in
\* flight have up to GracePeriod seconds to complete; the storage connection is
\* closed only once they have completed or the grace period has expired; and in
\* both cases the process exits in the end.
C21_GracefulShutdown ==
    /\ [][/\ server.phase # "serving" => ~C21_Accepted
          /\ server'.waited <= GracePeriod
          /\ C21_ConnectionCloses
             => /\ server.phase = "shuttingDown"
                /\ AllIdle \/ server.waited = GracePeriod]_vars
    /\ (server.phase = "shuttingDown") ~> (server.phase = "exited")
C21_Witness ==
    /\ server.phase = "exited"
    /\ server.exitCode = 1
    /\ server.waited = GracePeriod
    /\ ~server.dbClosed
    /\ \E c \in Clients : pc[c] = "CreateCarFetch"

\* the response is a successful answer to a PUT
C22_UpdateAnswered == resp # NoResp /\ resp.req.op = "UpdateCar" /\ resp.status = 200
\* the record returned carries the fields of the request it answers, the value
\* at the scale of the column
C22_OwnFields ==
    /\ resp.body[1].name = resp.req.car.name
    /\ resp.body[1].brand = resp.req.car.brand
    /\ resp.body[1].description = resp.req.car.description
    /\ resp.body[1].manufacturing_value = ToNumeric15_2(resp.req.car.manufacturing_value)

\* C22: under every interleaving of concurrent updates and deletes, a successful
\* update returns a record whose name, brand, value and description are those of
\* its own request.
C22_UpdateReturnsOwnRequest == C22_UpdateAnswered => C22_OwnFields

\* client c's DELETE runs its UPDATE statement in this step
C23_DeleteStep(c) == pc[c] = "DeleteCarExec" /\ pc'[c] = "idle"
\* the step stamps deleted-at on the live row of the id and on nothing else
C23_Stamps(id) ==
    \E old \in cars, new \in cars' :
        /\ old.id = id /\ old.deleted_at = NullTime
        /\ new.id = id /\ new.deleted_at = TimeNow
        /\ cars' \ {new} = cars \ {old}

\* C23: when several DELETE requests for the same live id run concurrently, the
\* one whose UPDATE runs first finds the row live, stamps deleted-at and
\* succeeds; every later one finds no live row, fails and writes nothing; and a
\* deleted-at once written is never written again.
C23_ExactlyOneDeleteSucceeds ==
    [][/\ \A c \in Clients :
            C23_DeleteStep(c)
            => IF LiveWithId(newId[c])
               THEN resp'.status = 204 /\ C23_Stamps(newId[c])
               ELSE resp'.status >= 400 /\ cars' = cars
       /\ \A old \in cars :
            old.deleted_at # NullTime
            => \E new \in cars' : new.id = old.id /\ new.deleted_at = old.deleted_at]_vars
C23_Witness ==
    /\ resp.req.op = "DeleteCar"
    /\ resp.status >= 400
    /\ resp.calls = 2
    /\ \E r \in cars : r.id = 1 /\ r.deleted_at # NullTime /\ r.deleted_at < clock

\* client c's POST is answered with an error in this step
C24_FailedCreateStep(c) ==
    /\ resp = NoResp
    /\ resp'.req.op = "CreateCar"
    /\ resp'.status >= 400
    /\ pc'[c] = "idle"
    /\ pc[c] \in {"CreateCarInsert", "CreateCarFetch"} \/ (pc[c] = "idle" /\ pc' = pc)
\* the table then holds no row inserted by that call
C24_NoRowOfCall(c) ==
    /\ cars' = cars
    /\ pc[c] = "CreateCarFetch" => ~\E r \in cars' : r.id = newId[c]

\* C24: a create that returns an error to its caller (validation failure,
\* duplicate name, insert failure, or failure of the re-fetch of the created
\* record, concurrent deletes included) has inserted no row.
C24_FailedCreateInsertsNothing ==
    [][\A c \in Clients : C24_FailedCreateStep(c) => C24_NoRowOfCall(c)]_vars

\* Every failed create but one that fails at its re-fetch has inserted no row.
FailedCreateBeforeFetchInsertsNothing ==
    [][\A c \in Clients :
         (C24_FailedCreateStep(c) /\ pc[c] # "CreateCarFetch") => C24_NoRowOfCall(c)]_vars

\* the page and page size carService.GetAllCars passes on for request r, and
\* the offset carRepository.GetAll computes from them
C25_Page(r) == NormalizePage(PageOf(r))
C25_PageSize(r) == NormalizePageSize(PageSizeOf(r))
C25_Offset(r) == RepoGetAll(C25_Page(r), C25_PageSize(r)).offset
\* (page - 1) * pageSize without wrapping, on one more limb: page - 1 >= 0 and
\* pageSize <= 100, so the product is below 2^80
C25_Product(r) == MulCarry(SubOne64(C25_Page(r)) \o <<0>>, C25_PageSize(r)[1], 0)

\* C25: for every page a request can supply (page >= 1 after normalization) and
\* every pageSize in [1,100], the offset (page-1)*pageSize computed in machine
\* integers is non-negative and equals the mathematical product.
C25_OffsetIsExactProduct ==
    resp.req.op = "GetAllCars"
    => /\ ~IsNegative64(C25_Offset(resp.req))
       /\ C25_Offset(resp.req) \o <<0>> = C25_Product(resp.req)

\* The offset is the product for every page below 2^16.
OffsetIsExactProductForSmallPages ==
    (resp.req.op = "GetAllCars" /\ FitsOneLimb(C25_Page(resp.req)))
    => /\ ~IsNegative64(C25_Offset(resp.req))
       /\ C25_Offset(resp.req) \o <<0>> = C25_Product(resp.req)

====
